---- MODULE Spec2Model ----
(***************************************************************************)
(* Model of the telemetry core of the IoT platform: the MQTT connection    *)
(* manager (src/mqtt_handler.py), its retry timer, receive callback and    *)
(* command dispatch, and the ingestion pipeline behind the receive         *)
(* callback (src/data_processor.py) with the storage adapter                *)
(* (src/influx_handler.py) and the device registry (src/mongo_handler.py).  *)
(*                                                                         *)
(* Threads: the constructing/caller thread (Main), the transport client's  *)
(* network-loop thread (Loop) and one thread per threading.Timer.  Every   *)
(* statement of _connect, _schedule_reconnect, _on_connect, _on_disconnect *)
(* and close that reads or writes shared state is one step, so that the    *)
(* threads interleave between statements (the code holds no lock).         *)
(***************************************************************************)
EXTENDS Integers, Sequences, FiniteSets, TLC

\* ------------------------------------------------------------------ bounds
\* Number of Timer objects that can exist at once (a finished, unreferenced
\* Timer is garbage and its slot is reused).
MaxTimers == 2
\* Longest topic, in tokens, the first message can carry.
MaxTopicLen == 7
\* Messages delivered in one behaviour.
MaxMsgs == 2
\* Minutes between two readings of the clock, and how often it advances.
TickMinutes == 3
MaxTicks == 2
\* Points the storage bucket holds at most.
MaxPoints == 2

\* ------------------------------------------------------- program constants
max_retries == 12
\* influx_handler.py line 378: range(start: -5m), in minutes
FreshnessWindow == 5

VARIABLES
    connected,      \* self.connected
    retry_count,    \* self.retry_count
    retry_thread,   \* self.retry_thread: 0 is None, i > 0 is Timer object i
    tstate,         \* per Timer object: free / created / waiting / running / cancelled / done
    pc,             \* per thread: the statement it is about to execute
    tmp,            \* per thread: the value read by `self.retry_count += 1`
    sock,           \* transport client: none / pending / up / closing / closed
    loop,           \* transport client's network thread: off / running / dead
    subs,           \* subscribe requests issued on the current socket
    closed,         \* close() has returned
    dm_devices,     \* device ids DeviceManager.add_device has stored
    DEVICES,        \* main.py DEVICES: the devices the REST API holds
    PROJECTS,       \* main.py PROJECTS: the projects the REST API holds
    db_projects,    \* db.projects: the project ids the registry holds
    project_of,     \* db.devices: device id -> project_id, where it is not None
    last_call,      \* the most recent publish / send_command call and its outcome
    callbacks,      \* self.callbacks
    rx,             \* the message the receive callback is handling / handled last
    rx_alive,       \* no exception has left _on_message
    rx_count,       \* messages delivered so far
    influx_handler, \* DataProcessor.influx_handler: the storage adapter
    mongo_handler,  \* DataProcessor.mongo_handler: the registry adapter
    registry,       \* db.devices: device id -> [status, last_seen]
    bucket,         \* the points the storage holds
    utcnow,         \* the clock, in minutes
    ing             \* the most recent DataProcessor call and its outcome

connVars == <<connected, retry_count, retry_thread, tstate, pc, tmp, sock, loop, subs, closed>>
apiVars == <<DEVICES, PROJECTS, db_projects, project_of>>
dmVars == <<dm_devices, apiVars>>
cmdVars == <<last_call>>
msgVars == <<callbacks, rx, rx_alive, rx_count>>
ingVars == <<influx_handler, mongo_handler, registry, bucket, utcnow, ing>>
appVars == <<dmVars, cmdVars, msgVars, ingVars>>
vars == <<connVars, appVars>>

\* ----------------------------------------------------------------- threads
TimerIds == 1..MaxTimers
Main == <<"main", 0>>
Loop == <<"loop", 0>>
Timer(i) == <<"timer", i>>
Threads == {Main, Loop} \cup {Timer(i) : i \in TimerIds}

\* A string is a sequence of tokens: the separator "/" or a slash-free piece.
Wildcard == <<"devices", "/", "+", "/", "data", "/", "#">>

\* threading.Thread.is_alive(): started and run() not yet returned.  A
\* cancelled Timer stays alive until its thread has woken up and left run().
IsAlive(i) == tstate[i] \in {"waiting", "running", "cancelled"}
\* Thread._started is set (and stays set after the thread has finished).
Started(i) == tstate[i] \in {"waiting", "running", "cancelled", "done"}

\* A Timer that is started, has not fired and has not been cancelled.
Pending(i) == tstate[i] = "waiting"
PendingTimers == {i \in TimerIds : Pending(i)}

\* Slots of Timer objects nothing refers to any more.
FreeIds == {i \in TimerIds : tstate[i] = "free"}

Min(S) == CHOOSE x \in S : \A y \in S : x <= y

\* Inputs the operations are called with.
DeviceIds == {<<"d1">>}

Commands == {<<"restart">>}
\* Instants the clock can show.
Times == {"T1"}

\* A payload value: None, a dict or a str.  A dict is a set of <<key, value>>
\* pairs with distinct keys, a value is a <<type, atom>> pair; a str payload
\* holds its text as the one pair <<"text", value>>.
None == [kind |-> "none", val |-> {}]
Dict(d) == [kind |-> "dict", val |-> d]
Str(x) == [kind |-> "str", val |-> {<<"text", <<"str", x>>>>}]

CmdPayloads == {None, Dict({<<"mode", <<"str", "fast">>>>})}
PubTopics == {<<"devices", "/", "d1", "/", "control">>}
PubPayloads == {Dict({<<"action", <<"str", "welcome">>>>}), Str("hello")}

NoCall ==
    [op |-> "none", dev |-> <<>>, cmd |-> <<>>, arg |-> None, now |-> "T1",
     conn |-> FALSE, tr |-> "none", handed |-> <<>>, ret |-> "none"]

InitConn ==
    /\ connected = FALSE
    /\ retry_count = 0
    /\ retry_thread = 0
    /\ tstate = [i \in TimerIds |-> "free"]
    /\ pc = [t \in Threads |-> IF t = Main THEN "connect" ELSE "idle"]
    /\ tmp = [t \in Threads |-> 0]
    /\ sock = "none"
    /\ loop = "off"
    /\ subs = {}
    /\ closed = FALSE

\* Tokens topics are made of, and the topics of at most n tokens.
TopicTokens == {"/", "a", "b"}
RECURSIVE TopicsUpTo(_)
TopicsUpTo(n) ==
    IF n = 0 THEN {<<>>}
    ELSE LET S == TopicsUpTo(n - 1)
         IN S \cup {Append(t, x) : t \in {u \in S : Len(u) = n - 1}, x \in TopicTokens}

\* msg.payload: bytes that are UTF-8 text, or bytes that are not.
Bytes(text) == [utf8 |-> TRUE, text |-> text]
BadBytes == [utf8 |-> FALSE, text |-> ""]
RxPayloads == {Bytes("{\"value\": 21}"), Bytes("42"), Bytes("hello"), BadBytes}

CallbackIds == {"cb1", "cb2"}

NoRx ==
    [stage |-> "none", topic |-> <<>>, payload |-> BadBytes, outcome |-> "none",
     calls |-> <<>>, cbs |-> <<>>]

RxMessages == [topic : TopicsUpTo(MaxTopicLen), payload : RxPayloads]

\* Messages the broker delivers after the first one.
FollowUps ==
    {[topic |-> <<"a", "/", "b", "/", "a", "/", "b">>, payload |-> Bytes("42")],
     [topic |-> <<"a", "/", "b">>, payload |-> Bytes("hello")]}

\* main.py lines 180-228: the demo devices and projects the REST API starts
\* with; a device is [device_id, project_id], a project [project_id, owner],
\* a project_id value a <<type, atom>> pair.  The registry's collections are
\* empty.
InitApi ==
    /\ DEVICES = <<[device_id |-> "demo-temp-1", project_id |-> <<"str", "home-monitoring">>],
                   [device_id |-> "demo-temp-2", project_id |-> <<"str", "home-monitoring">>],
                   [device_id |-> "demo-humidity-1", project_id |-> <<"str", "home-monitoring">>],
                   [device_id |-> "demo-soil-1", project_id |-> <<"str", "garden-automation">>]>>
    /\ PROJECTS = <<[project_id |-> "home-monitoring", owner |-> "admin"],
                    [project_id |-> "garden-automation", owner |-> "admin"]>>
    /\ db_projects = {}
    /\ project_of = [d \in {} |-> <<"str", "">>]

Init ==
    /\ InitConn
    /\ InitApi
    /\ dm_devices = {}
    /\ last_call = NoCall
    /\ callbacks = <<>>
    /\ rx = NoRx
    /\ rx_alive = TRUE
    /\ rx_count = 0
    /\ influx_handler = [kind |-> "InfluxDBHandler", up |-> TRUE]
    /\ mongo_handler = [kind |-> "MongoDBHandler", up |-> TRUE]
    /\ registry = [d \in {} |-> [status |-> "Offline", last_seen |-> 0 - 1]]
    /\ bucket = {}
    /\ utcnow = 0
    /\ ing = [op |-> "none", device_id |-> <<>>, measurement |-> <<>>, payload |-> None,
              at |-> 0, known |-> FALSE, built |-> <<>>, writes |-> <<>>, wr |-> "none",
              exc |-> "none", ret |-> "none", batch |-> <<>>]

\* ------------------------------------------------ leaving a handler / thread
\* The handler running on thread t returns: Main and Loop go back to idle, a
\* Timer thread leaves run() (its object stays around only while
\* self.retry_thread refers to it).
TimerEnd(i) == IF retry_thread = i THEN "done" ELSE "free"

Return(t) ==
    /\ pc' = [pc EXCEPT ![t] = "idle"]
    /\ tstate' = IF t[1] = "timer"
                 THEN [tstate EXCEPT ![t[2]] = TimerEnd(t[2])]
                 ELSE tstate
    /\ loop' = loop

\* An exception leaves the handler on thread t uncaught: the constructor
\* raises (Main), the network thread dies (Loop), the Timer thread dies.
Raise(t) ==
    /\ pc' = [pc EXCEPT ![t] = IF t = Main THEN "raised" ELSE "idle"]
    /\ tstate' = IF t[1] = "timer"
                 THEN [tstate EXCEPT ![t[2]] = TimerEnd(t[2])]
                 ELSE tstate
    /\ loop' = IF t = Loop THEN "dead" ELSE loop

\* --------------------------------------------------------------- _connect
\* client.connect(broker, port, 60): opens a new socket (dropping the one the
\* client had) and sends CONNECT, or raises.
ConnectOk(t) ==
    /\ pc[t] = "connect"
    /\ sock' = "pending"
    /\ subs' = {}
    /\ pc' = [pc EXCEPT ![t] = "loop_start"]
    /\ UNCHANGED <<connected, retry_count, retry_thread, tstate, tmp, loop, closed>>
    /\ UNCHANGED appVars

ConnectRaises(t) ==
    /\ pc[t] = "connect"
    /\ sock' = "none"
    /\ subs' = {}
    /\ pc' = [pc EXCEPT ![t] = "sr_check"]
    /\ UNCHANGED <<connected, retry_count, retry_thread, tstate, tmp, loop, closed>>
    /\ UNCHANGED appVars

\* client.loop_start(): starts the network thread unless the client has one.
LoopStart(t) ==
    /\ pc[t] = "loop_start"
    /\ pc' = [pc EXCEPT ![t] = "idle"]
    /\ tstate' = IF t[1] = "timer"
                 THEN [tstate EXCEPT ![t[2]] = TimerEnd(t[2])]
                 ELSE tstate
    /\ loop' = IF loop = "off" THEN "running" ELSE loop
    /\ UNCHANGED <<connected, retry_count, retry_thread, tmp, sock, subs, closed>>
    /\ UNCHANGED appVars

\* ---------------------------------------------------- _schedule_reconnect
\* line 80: if self.retry_count < self.max_retries
BelowMax == retry_count < max_retries

SrCheck(t) ==
    /\ pc[t] = "sr_check"
    /\ IF BelowMax
       THEN /\ pc' = [pc EXCEPT ![t] = "sr_read"]
            /\ UNCHANGED <<tstate, loop>>
       ELSE Return(t)
    /\ UNCHANGED <<connected, retry_count, retry_thread, tmp, sock, subs, closed>>
    /\ UNCHANGED appVars

\* line 83: self.retry_count += 1 (a read, then a write)
SrRead(t) ==
    /\ pc[t] = "sr_read"
    /\ tmp' = [tmp EXCEPT ![t] = retry_count]
    /\ pc' = [pc EXCEPT ![t] = "sr_write"]
    /\ UNCHANGED <<connected, retry_count, retry_thread, tstate, sock, loop, subs, closed>>
    /\ UNCHANGED appVars

SrWrite(t) ==
    /\ pc[t] = "sr_write"
    /\ retry_count' = tmp[t] + 1
    /\ tmp' = [tmp EXCEPT ![t] = 0]
    /\ pc' = [pc EXCEPT ![t] = "sr_alive"]
    /\ UNCHANGED <<connected, retry_thread, tstate, sock, loop, subs, closed>>
    /\ UNCHANGED appVars

\* Faulty variant of RetryAlive: the is_alive check of line 84 left out.
RetryAlive_Unchecked == FALSE

\* line 84: if self.retry_thread is not None and self.retry_thread.is_alive(): return
RetryAlive == retry_thread # 0 /\ IsAlive(retry_thread)

SrAlive(t) ==
    /\ pc[t] = "sr_alive"
    /\ IF RetryAlive
       THEN Return(t)
       ELSE /\ pc' = [pc EXCEPT ![t] = "sr_new"]
            /\ UNCHANGED <<tstate, loop>>
    /\ UNCHANGED <<connected, retry_count, retry_thread, tmp, sock, subs, closed>>
    /\ UNCHANGED appVars

\* lines 86-87: self.retry_thread = threading.Timer(self.retry_interval, self._connect)
SrNew(t) ==
    /\ pc[t] = "sr_new"
    /\ FreeIds # {}
    /\ LET n == Min(FreeIds) IN
        /\ retry_thread' = n
        /\ tstate' = [i \in TimerIds |->
                        IF i = n THEN "created"
                        ELSE IF i = retry_thread /\ ~IsAlive(i) THEN "free"
                        ELSE tstate[i]]
    /\ pc' = [pc EXCEPT ![t] = "sr_daemon"]
    /\ UNCHANGED <<connected, retry_count, tmp, sock, loop, subs, closed>>
    /\ UNCHANGED appVars

\* line 88: self.retry_thread.daemon = True (RuntimeError on a started thread)
SrDaemon(t) ==
    /\ pc[t] = "sr_daemon"
    /\ IF Started(retry_thread)
       THEN Raise(t)
       ELSE /\ pc' = [pc EXCEPT ![t] = "sr_start"]
            /\ UNCHANGED <<tstate, loop>>
    /\ UNCHANGED <<connected, retry_count, retry_thread, tmp, sock, subs, closed>>
    /\ UNCHANGED appVars

\* line 89: self.retry_thread.start() (RuntimeError on a started thread)
SrStart(t) ==
    /\ pc[t] = "sr_start"
    /\ IF Started(retry_thread)
       THEN Raise(t)
       ELSE /\ pc' = [pc EXCEPT ![t] = "idle"]
            /\ tstate' = [i \in TimerIds |->
                            IF i = retry_thread THEN "waiting"
                            ELSE IF t = Timer(i) THEN "free"
                            ELSE tstate[i]]
            /\ loop' = loop
    /\ UNCHANGED <<connected, retry_count, retry_thread, tmp, sock, subs, closed>>
    /\ UNCHANGED appVars

ScheduleReconnect(t) ==
    \/ SrCheck(t)
    \/ SrRead(t)
    \/ SrWrite(t)
    \/ SrAlive(t)
    \/ SrNew(t)
    \/ SrDaemon(t)
    \/ SrStart(t)

Connect(t) ==
    \/ ConnectOk(t)
    \/ ConnectRaises(t)
    \/ LoopStart(t)

\* ------------------------------------------------------------ _on_connect
\* The broker's CONNACK arrives on the network thread, which calls
\* _on_connect(client, userdata, flags, rc).
BrokerAckOk ==
    /\ loop = "running" /\ pc[Loop] = "idle" /\ sock = "pending"
    /\ sock' = "up"
    /\ pc' = [pc EXCEPT ![Loop] = "oc_flag"]
    /\ UNCHANGED <<connected, retry_count, retry_thread, tstate, tmp, loop, subs, closed>>
    /\ UNCHANGED appVars

BrokerAckRefused ==
    /\ loop = "running" /\ pc[Loop] = "idle" /\ sock = "pending"
    /\ sock' = "none"
    /\ subs' = {}
    /\ pc' = [pc EXCEPT ![Loop] = "ocf_flag"]
    /\ UNCHANGED <<connected, retry_count, retry_thread, tstate, tmp, loop, closed>>
    /\ UNCHANGED appVars

\* line 97: self.connected = True
OcFlag ==
    /\ pc[Loop] = "oc_flag"
    /\ connected' = TRUE
    /\ pc' = [pc EXCEPT ![Loop] = "oc_reset"]
    /\ UNCHANGED <<retry_count, retry_thread, tstate, tmp, sock, loop, subs, closed>>
    /\ UNCHANGED appVars

\* line 98: self.retry_count = 0
OcReset ==
    /\ pc[Loop] = "oc_reset"
    /\ retry_count' = 0
    /\ pc' = [pc EXCEPT ![Loop] = "oc_sub"]
    /\ UNCHANGED <<connected, retry_thread, tstate, tmp, sock, loop, subs, closed>>
    /\ UNCHANGED appVars

\* line 101: client.subscribe("devices/+/data/#"); the request goes out on
\* the socket the client holds, if it holds one.
Replayed == {Wildcard}

OcSub ==
    /\ pc[Loop] = "oc_sub"
    /\ subs' = IF sock \in {"pending", "up"} THEN subs \cup Replayed ELSE subs
    /\ pc' = [pc EXCEPT ![Loop] = "idle"]
    /\ UNCHANGED <<connected, retry_count, retry_thread, tstate, tmp, sock, loop, closed>>
    /\ UNCHANGED appVars

\* line 105: self.connected = False, then line 106: self._schedule_reconnect()
OcfFlag ==
    /\ pc[Loop] = "ocf_flag"
    /\ connected' = FALSE
    /\ pc' = [pc EXCEPT ![Loop] = "sr_check"]
    /\ UNCHANGED <<retry_count, retry_thread, tstate, tmp, sock, loop, subs, closed>>
    /\ UNCHANGED appVars

\* --------------------------------------------------------- _on_disconnect
\* The connection drops: the network thread calls _on_disconnect with rc # 0.
ConnectionLost ==
    /\ loop = "running" /\ pc[Loop] = "idle" /\ sock \in {"pending", "up"}
    /\ sock' = "none"
    /\ subs' = {}
    /\ pc' = [pc EXCEPT ![Loop] = "od_lost"]
    /\ UNCHANGED <<connected, retry_count, retry_thread, tstate, tmp, loop, closed>>
    /\ UNCHANGED appVars

\* The network thread writes the DISCONNECT that client.disconnect() queued
\* and calls _on_disconnect with rc = 0.
DisconnectSent ==
    /\ loop = "running" /\ pc[Loop] = "idle" /\ sock = "closing"
    /\ sock' = "closed"
    /\ subs' = {}
    /\ pc' = [pc EXCEPT ![Loop] = "od_req"]
    /\ UNCHANGED <<connected, retry_count, retry_thread, tstate, tmp, loop, closed>>
    /\ UNCHANGED appVars

\* The network loop reconnects by itself after a lost connection (not after a
\* requested disconnect).
LoopReconnect ==
    /\ loop = "running" /\ pc[Loop] = "idle" /\ sock = "none"
    /\ sock' = "pending"
    /\ UNCHANGED <<connected, retry_count, retry_thread, tstate, pc, tmp, loop, subs, closed>>
    /\ UNCHANGED appVars

\* line 111: self.connected = False; line 114: if rc != 0: self._schedule_reconnect()
ScheduleOnDisconnect(rc) == rc # 0

OnDisconnect(t) ==
    /\ pc[t] \in {"od_lost", "od_req"}
    /\ connected' = FALSE
    /\ LET rc == IF pc[t] = "od_lost" THEN 1 ELSE 0 IN
        IF ScheduleOnDisconnect(rc)
        THEN /\ pc' = [pc EXCEPT ![t] = "sr_check"]
             /\ UNCHANGED <<loop, closed>>
        ELSE /\ pc' = [pc EXCEPT ![t] = "idle"]
             \* after a requested disconnect the network thread ends; on the
             \* caller's thread this is the end of close()
             /\ loop' = IF t = Loop THEN "dead" ELSE loop
             /\ closed' = IF t = Main THEN TRUE ELSE closed
    /\ UNCHANGED <<retry_count, retry_thread, tstate, tmp, sock, subs>>
    /\ UNCHANGED appVars

\* ------------------------------------------------------- threading.Timer
\* The interval has passed and the Timer has not been cancelled: its thread
\* calls self._connect.
TimerFires(i) ==
    /\ tstate[i] = "waiting"
    /\ tstate' = [tstate EXCEPT ![i] = "running"]
    /\ pc' = [pc EXCEPT ![Timer(i)] = "connect"]
    /\ UNCHANGED <<connected, retry_count, retry_thread, tmp, sock, loop, subs, closed>>
    /\ UNCHANGED appVars

\* A cancelled Timer's thread wakes up and leaves run().
TimerExits(i) ==
    /\ tstate[i] = "cancelled"
    /\ tstate' = [tstate EXCEPT ![i] = TimerEnd(i)]
    /\ UNCHANGED <<connected, retry_count, retry_thread, pc, tmp, sock, loop, subs, closed>>
    /\ UNCHANGED appVars

\* ------------------------------------------------------------------ close
CloseCall ==
    /\ pc[Main] = "idle" /\ ~closed
    /\ pc' = [pc EXCEPT ![Main] = "cl_cancel"]
    /\ UNCHANGED <<connected, retry_count, retry_thread, tstate, tmp, sock, loop, subs, closed>>
    /\ UNCHANGED appVars

\* lines 217-218: if retry_thread is alive: retry_thread.cancel().  cancel()
\* stops a Timer that is still waiting; one that has fired keeps running.
CancelOnClose(i) == IF tstate[i] = "waiting" THEN "cancelled" ELSE tstate[i]

CloseCancel ==
    /\ pc[Main] = "cl_cancel"
    /\ tstate' = IF RetryAlive
                 THEN [tstate EXCEPT ![retry_thread] = CancelOnClose(retry_thread)]
                 ELSE tstate
    /\ pc' = [pc EXCEPT ![Main] = "cl_loop_stop"]
    /\ UNCHANGED <<connected, retry_count, retry_thread, tmp, sock, loop, subs, closed>>
    /\ UNCHANGED appVars

\* line 219: self.client.loop_stop() joins the network thread, so it returns
\* only once that thread has left the callback it was in.
CloseLoopStop ==
    /\ pc[Main] = "cl_loop_stop"
    /\ pc[Loop] = "idle"
    /\ loop' = "off"
    /\ pc' = [pc EXCEPT ![Main] = "cl_disconnect"]
    /\ UNCHANGED <<connected, retry_count, retry_thread, tstate, tmp, sock, subs, closed>>
    /\ UNCHANGED appVars

\* line 220: self.client.disconnect().  Without a socket nothing is sent.  With
\* a network thread the DISCONNECT is queued for it; without one it is written
\* on the calling thread, which then runs _on_disconnect(rc = 0) itself.
CloseDisconnect ==
    /\ pc[Main] = "cl_disconnect"
    /\ IF sock \in {"pending", "up"}
       THEN IF loop = "running"
            THEN /\ sock' = "closing"
                 /\ pc' = [pc EXCEPT ![Main] = "idle"]
                 /\ closed' = TRUE
                 /\ subs' = subs
            ELSE /\ sock' = "closed"
                 /\ pc' = [pc EXCEPT ![Main] = "od_req"]
                 /\ closed' = closed
                 /\ subs' = {}
       ELSE /\ sock' = "closed"
            /\ pc' = [pc EXCEPT ![Main] = "idle"]
            /\ closed' = TRUE
            /\ subs' = {}
    /\ UNCHANGED <<connected, retry_count, retry_thread, tstate, tmp, loop>>
    /\ UNCHANGED appVars

Close ==
    \/ CloseCall
    \/ CloseCancel
    \/ CloseLoopStop
    \/ CloseDisconnect

\* ---------------------------------------------------------------- publish
\* json.dumps(payload): the JSON text of a dict.
JsonDumps(payload) == [kind |-> "json", val |-> payload.val]

\* lines 173-174: a dict payload is serialised, anything else goes out as is
Wire(payload) == IF payload.kind = "dict" THEN JsonDumps(payload) ELSE payload

\* Faulty variant of PublishOutcome: the `if not self.connected` guard left out.
PublishOutcome_NoGuard(conn, topic, payload, tr) ==
    [tr |-> tr,
     handed |-> <<[topic |-> topic, payload |-> IF payload.kind = "dict"
                                                THEN [kind |-> "json", val |-> payload.val]
                                                ELSE payload]>>,
     ret |-> IF tr = "ok" THEN "true" ELSE "false"]

\* lines 167-188.  conn is self.connected as line 167 reads it; tr is what the
\* transport client does with the message: "ok" (rc = MQTT_ERR_SUCCESS), "err"
\* (another rc) or "raise".  Yields the messages handed to client.publish and
\* the value returned.
PublishOutcome(conn, topic, payload, tr) ==
    IF ~conn
    THEN [tr |-> "none", handed |-> <<>>, ret |-> "false"]
    ELSE [tr |-> tr,
          handed |-> <<[topic |-> topic, payload |-> Wire(payload)]>>,
          ret |-> IF tr = "ok" THEN "true" ELSE "false"]

TransportOutcomes == {"ok", "err", "raise"}

Publish(topic, payload) ==
    /\ pc[Main] = "idle"
    /\ \E tr \in TransportOutcomes :
        LET r == PublishOutcome(connected, topic, payload, tr) IN
        last_call' = [op |-> "publish", dev |-> topic, cmd |-> <<>>, arg |-> payload,
                      now |-> "T1", conn |-> connected,
                      tr |-> r.tr, handed |-> r.handed, ret |-> r.ret]
    /\ UNCHANGED connVars
    /\ UNCHANGED <<dmVars, msgVars, ingVars>>

\* ----------------------------------------------------------- send_command
\* Faulty variant of CommandTopic: the topic DeviceManager.send_command builds,
\* devices/<device_id>/command.
CommandTopic_Singular(device_id, command) ==
    <<"devices", "/">> \o device_id \o <<"/", "command">>

\* line 203: topic = f"devices/{device_id}/commands/{command}"
CommandTopic(device_id, command) ==
    <<"devices", "/">> \o device_id \o <<"/", "commands", "/">> \o command

\* datetime.now().isoformat()
IsoFormat(t) == <<"iso", t>>

\* d[key] = value on a dict
DictSet(d, key, value) == {kv \in d : kv[1] # key} \cup {<<key, value>>}

\* lines 206-210: None becomes {}, then payload['timestamp'] = now
Stamped(payload, now) ==
    LET p == IF payload.kind = "none" THEN {} ELSE payload.val
    IN Dict(DictSet(p, "timestamp", IsoFormat(now)))

SendCommand(device_id, command, payload, now) ==
    /\ pc[Main] = "idle"
    /\ \E tr \in TransportOutcomes :
        LET r == PublishOutcome(connected, CommandTopic(device_id, command),
                                Stamped(payload, now), tr) IN
        last_call' = [op |-> "send_command", dev |-> device_id, cmd |-> command,
                      arg |-> payload, now |-> now, conn |-> connected,
                      tr |-> r.tr, handed |-> r.handed, ret |-> r.ret]
    /\ UNCHANGED connVars
    /\ UNCHANGED <<dmVars, msgVars, ingVars>>

\* ------------------------------------------------------ register_callback
\* lines 151-152: if callback not in self.callbacks: self.callbacks.append(callback)
RegisterCallback(cb) ==
    /\ callbacks' = IF \E k \in 1..Len(callbacks) : callbacks[k] = cb
                    THEN callbacks
                    ELSE Append(callbacks, cb)
    /\ UNCHANGED <<rx, rx_alive, rx_count>>
    /\ UNCHANGED <<connVars, dmVars, cmdVars, ingVars>>

\* ------------------------------------------------------------ _on_message
\* msg.topic.split('/'): the pieces between the separators, empty ones included.
RECURSIVE SplitAcc(_, _, _)
SplitAcc(s, cur, acc) ==
    IF s = <<>> THEN Append(acc, cur)
    ELSE IF Head(s) = "/" THEN SplitAcc(Tail(s), <<>>, Append(acc, cur))
    ELSE SplitAcc(Tail(s), Append(cur, Head(s)), acc)

Split(topic) == SplitAcc(topic, <<>>, <<>>)

\* Faulty variant of DeviceIdOf: the index off by one (parts[0]).
DeviceIdOf_First(parts) == parts[1]

\* line 125: if len(parts) >= 4
TopicValid(parts) == Len(parts) >= 4
\* line 126: device_id = parts[1]   (sequences here count from 1)
DeviceIdOf(parts) == parts[2]
\* line 127: measurement = parts[3]
MeasurementOf(parts) == parts[4]

\* utils.py lines 71-87: parse_mqtt_topic.  keys are the keys of the dict
\* returned; type, device_id and channel hold "" / <<>> where the key is absent.
ParseMqttTopic(topic) ==
    LET parts == Split(topic)
        device == Len(parts) >= 2 /\ parts[1] = <<"devices">>
        channel == device /\ Len(parts) >= 3
    IN [keys |-> {"full_topic", "levels"}
                    \cup (IF device THEN {"type", "device_id"} ELSE {})
                    \cup (IF channel THEN {"channel"} ELSE {}),
        full_topic |-> topic,
        levels |-> Len(parts),
        type |-> IF device THEN "device" ELSE "",
        device_id |-> IF device THEN parts[2] ELSE <<>>,
        channel |-> IF channel THEN parts[3] ELSE <<>>]

\* json.loads on the texts the model delivers: a JSON object, a JSON number,
\* or JSONDecodeError.
JsonLoads(text) ==
    IF text = "{\"value\": 21}"
    THEN [ok |-> TRUE, value |-> Dict({<<"value", <<"num", "21">>>>})]
    ELSE IF text = "{\"value\": 22.3, \"timestamp\": \"2024-05-01T12:00:00Z\"}"
    THEN [ok |-> TRUE,
          value |-> Dict({<<"value", <<"num", "22.3">>>>,
                          <<"timestamp", <<"str", "2024-05-01T12:00:00Z">>>>})]
    ELSE IF text = "42"
    THEN [ok |-> TRUE, value |-> [kind |-> "int", val |-> {<<"int", <<"num", "42">>>>}]]
    ELSE [ok |-> FALSE, value |-> None]

\* lines 130-134: the parsed JSON, or {'value': <text>} when the text is not JSON
RxDecode(payload) ==
    LET j == JsonLoads(payload.text)
    IN IF j.ok THEN j.value ELSE Dict({<<"value", <<"str", payload.text>>>>})

\* lines 119-142 for one message.  failAt is the position of the first
\* registered callback that raises (0: none does).  An exception anywhere in
\* the handler - bytes that are not UTF-8, a callback that raises - ends it in
\* the except clause of line 141.
OnMessageResult(topic, payload, cbs, failAt) ==
    LET parts == Split(topic) IN
    IF ~TopicValid(parts)
    THEN [outcome |-> "invalid_topic", calls |-> <<>>]
    ELSE IF ~payload.utf8
    THEN [outcome |-> "error", calls |-> <<>>]
    ELSE LET last == IF failAt = 0 THEN Len(cbs) ELSE failAt
             call(k) == [cb |-> cbs[k], device_id |-> DeviceIdOf(parts),
                         measurement |-> MeasurementOf(parts),
                         payload |-> RxDecode(payload)]
         IN [outcome |-> IF failAt = 0 THEN "dispatched" ELSE "error",
             calls |-> [k \in 1..last |-> call(k)]]

\* An except clause that lets the exception out of the handler.
Escapes_Uncaught(outcome) == outcome = "error"

\* line 141: except Exception catches whatever the try block raised
Escapes(outcome) == FALSE

\* The broker delivers a message to the network thread: the first one any
\* message within the bounds, later ones drawn from FollowUps.
Arrive ==
    /\ rx_alive /\ rx.stage # "arrived" /\ rx_count < MaxMsgs
    /\ \E m \in (IF rx_count = 0 THEN RxMessages ELSE FollowUps) :
        rx' = [NoRx EXCEPT !.stage = "arrived", !.topic = m.topic, !.payload = m.payload]
    /\ rx_count' = rx_count + 1
    /\ UNCHANGED <<callbacks, rx_alive>>
    /\ UNCHANGED <<connVars, dmVars, cmdVars, ingVars>>

\* ---------------------------------------- DeviceManager and MQTTHandler
\* The attributes an MQTTHandler instance has (its methods and the fields set
\* in __init__).
MQTTHandlerAttrs ==
    {"is_connected", "_connect", "_schedule_reconnect", "_on_connect",
     "_on_disconnect", "_on_message", "register_callback", "publish",
     "send_command", "close",
     "broker", "port", "username", "password", "connected", "callbacks",
     "client_id", "client", "retry_interval", "max_retries", "retry_count",
     "retry_thread"}

HasAttr(name) == name \in MQTTHandlerAttrs

\* device_manager.py line 24
has_mqtt == HasAttr("publish_message")

\* f"devices/{device_id}/#"
DevicePattern(d) == <<"devices", "/">> \o d \o <<"/", "#">>

\* device_manager.py line 208: command_topic = f"devices/{device_id}/command"
DmCommandTopic(device_id) == <<"devices", "/">> \o device_id \o <<"/", "command">>

\* device_manager.py lines 208-216: the topic and the message are built, then
\* self.mqtt_handler.publish_message is looked up; MQTTHandler has no such
\* attribute, so the call raises AttributeError before anything reaches the
\* handler.
DmSendCommandOutcome(device_id, command, payload) ==
    IF HasAttr("publish_message")
    THEN [topic |-> DmCommandTopic(device_id), handed |-> <<>>, ret |-> "delegated"]
    ELSE [topic |-> DmCommandTopic(device_id), handed |-> <<>>, ret |-> "raise"]

\* DeviceManager.send_command, lines 195-216
DmSendCommand(device_id, command, payload) ==
    /\ pc[Main] = "idle"
    /\ LET r == DmSendCommandOutcome(device_id, command, payload) IN
        last_call' = [op |-> "dm_send_command", dev |-> device_id, cmd |-> command,
                      arg |-> payload, now |-> "T1", conn |-> connected,
                      tr |-> "none", handed |-> r.handed, ret |-> r.ret]
    /\ UNCHANGED connVars
    /\ UNCHANGED <<dmVars, msgVars, ingVars>>

\* DeviceManager.restart_device, line 240: return self.send_command(device_id, "restart")
RestartDevice(device_id) ==
    /\ pc[Main] = "idle"
    /\ LET r == DmSendCommandOutcome(device_id, <<"restart">>, None) IN
        last_call' = [op |-> "restart_device", dev |-> device_id, cmd |-> <<"restart">>,
                      arg |-> None, now |-> "T1", conn |-> connected,
                      tr |-> "none", handed |-> r.handed, ret |-> r.ret]
    /\ UNCHANGED connVars
    /\ UNCHANGED <<dmVars, msgVars, ingVars>>

\* ------------------------------------------------- the pipeline's adapters
\* The storage adapter DataProcessor is constructed with: None, the
\* InfluxDBHandler of influx_handler.py, or a handler that also provides
\* write_data_point and write_data_points ("extended").  up is what its
\* is_connected() returns: client and write_api were set by the constructor.
NoInflux == [kind |-> "None", up |-> FALSE]
InfluxDBHandler(up) == [kind |-> "InfluxDBHandler", up |-> up]
ExtendedInflux(up) == [kind |-> "extended", up |-> up]
StorageAdapters ==
    {NoInflux, InfluxDBHandler(TRUE), InfluxDBHandler(FALSE), ExtendedInflux(TRUE)}

\* The methods of class InfluxDBHandler.
InfluxDBHandlerAttrs ==
    {"is_connected", "write_data", "get_device_data", "get_latest_data",
     "get_measurements", "_get_device_status"}

\* getattr(self.influx_handler, name) succeeds
InfluxHasAttr(h, name) ==
    \/ name \in InfluxDBHandlerAttrs
    \/ h.kind = "extended" /\ name \in {"write_data_point", "write_data_points"}

\* `self.influx_handler and self.influx_handler.is_connected()`
InfluxAvailable(h) == h.kind # "None" /\ h.up

\* The registry adapter: None or a MongoDBHandler, connected or not.
NoMongo == [kind |-> "None", up |-> FALSE]
MongoDBHandler(up) == [kind |-> "MongoDBHandler", up |-> up]
RegistryAdapters == {NoMongo, MongoDBHandler(TRUE), MongoDBHandler(FALSE)}

\* `self.mongo_handler and self.mongo_handler.is_connected()`
MongoAvailable(h) == h.kind # "None" /\ h.up

\* mongo_handler.add_device lines 257-265: the document of a new device
NoLastSeen == 0 - 1
NewDevice == [status |-> "Offline", last_seen |-> NoLastSeen]
RegistryOf(ids) == [d \in ids |-> NewDevice]

\* ------------------------------------------------------- payloads, values
\* Python None / JSON null as a value
NoneValue == <<"none", "None">>

\* payload.get(key): the value under key, None when the key is absent
DictGet(d, key) ==
    IF \E kv \in d : kv[1] = key
    THEN (CHOOSE kv \in d : kv[1] = key)[2]
    ELSE NoneValue

\* `if timestamp:` - None, "" and 0 are false
Truthy(v) == v[1] # "none" /\ v[2] # "" /\ ~(v[1] = "num" /\ v[2] = "0")

\* The clock counts minutes from 2024-05-01T12:00:00 UTC.
\* timestamp.replace('Z', '+00:00') on the texts the model uses
ReplaceZ(text) ==
    IF text = "2024-05-01T12:00:00Z" THEN "2024-05-01T12:00:00+00:00"
    ELSE IF text = "2024-05-01T12:03:00Z" THEN "2024-05-01T12:03:00+00:00"
    ELSE text

\* datetime.fromisoformat: the instant, or ValueError
FromIsoFormat(text) ==
    IF text = "2024-05-01T12:00:00+00:00" THEN [ok |-> TRUE, t |-> 0]
    ELSE IF text = "2024-05-01T12:03:00+00:00" THEN [ok |-> TRUE, t |-> 3]
    ELSE [ok |-> FALSE, t |-> 0]

\* lines 65-77: the point's time.  A timestamp that is not a str has no
\* replace(); the bare except of line 70 takes that for a bad format as well.
PointTime(payload, clock) ==
    LET timestamp == DictGet(payload.val, "timestamp") IN
    IF Truthy(timestamp)
    THEN IF timestamp[1] = "str" /\ FromIsoFormat(ReplaceZ(timestamp[2])).ok
         THEN FromIsoFormat(ReplaceZ(timestamp[2])).t
         ELSE clock
    ELSE clock

ReservedKeys == {"device_id", "timestamp"}

\* A decoder that keeps every key of the payload.
PointFields_Unfiltered(payload) == payload.val

\* lines 80-83: every key of the payload but the reserved ones
PointFields(payload) == {kv \in payload.val : kv[1] \notin ReservedKeys}

\* lines 86-93
MakePoint(device_id, measurement, payload, clock) ==
    [measurement |-> measurement, device_id |-> device_id,
     time |-> PointTime(payload, clock), fields |-> PointFields(payload)]

\* ------------------------------------------------------ pipeline inputs
Measurements == {<<"sensors">>}

Num(x) == <<"num", x>>
Text(x) == <<"str", x>>

\* Payloads process_mqtt_message is called with: with and without value, with
\* a parseable, an unparseable and a numeric timestamp, with reserved keys,
\* and a payload that is no dict.
P_Value == Dict({<<"value", Num("21.5")>>})
P_Stamped == Dict({<<"value", Num("22.3")>>, <<"timestamp", Text("2024-05-01T12:00:00Z")>>})
P_BadStamp == Dict({<<"value", Num("21.5")>>, <<"timestamp", Text("yesterday")>>})
P_NumStamp == Dict({<<"value", Num("21.5")>>, <<"timestamp", Num("1714564800")>>})
P_Reserved ==
    Dict({<<"value", Num("21.5")>>, <<"device_id", Text("other")>>,
          <<"timestamp", Text("2024-05-01T12:03:00Z")>>, <<"unit", Text("C")>>})
P_NoValue == Dict({<<"temperature", Num("21.5")>>})
P_Int == [kind |-> "int", val |-> {<<"int", Num("42")>>}]
IngestPayloads ==
    {P_Value, P_Stamped, P_BadStamp, P_NumStamp, P_Reserved, P_NoValue, P_Int}

\* Batches process_data_batch is called with.
BatchPoint(t) ==
    [measurement |-> <<"sensors">>, device_id |-> <<"d1">>, time |-> t,
     fields |-> {<<"value", Num("21.5")>>}]
Batches == {<<>>, <<BatchPoint(0)>>, <<BatchPoint(0), BatchPoint(3)>>}

\* ------------------------------------------- DataProcessor.process_mqtt_message
\* What the registry does with a call: "ok", or "error" (the handler's methods
\* catch the driver's exception and return None / False).
MongoOutcomes == {"ok", "error"}
\* What the storage does with a write: returns True ("ok"), returns False
\* ("fail") or raises ("raise").
WriteOutcomes == {"ok", "fail", "raise"}

\* lines 44-54: a device the registry knows is set Online and its last_seen
\* to the current time; an unknown device is only logged.
TouchDevice(h, reg, clock, device_id, mo) ==
    IF MongoAvailable(h) /\ mo = "ok" /\ device_id \in DOMAIN reg
    THEN [reg EXCEPT ![device_id] = [status |-> "Online", last_seen |-> clock]]
    ELSE reg

\* A caller that takes every write that did not raise for a success.
Returned_Ignored(wr) == IF wr = "raise" THEN "raise" ELSE "true"

\* lines 95-103 and 125-132: True when the write returned True, False when it
\* returned False; an exception of the write goes on to the except clause.
Returned(wr) == IF wr = "ok" THEN "true" ELSE IF wr = "fail" THEN "false" ELSE "raise"

\* lines 57-106, the body of the try block after the registry update.  ret is
\* the value returned, or "raise" with the exception in exc; wr is what the
\* write did, "none" when none was made.
StoreBody(h, clock, device_id, measurement, payload, wr) ==
    LET point == MakePoint(device_id, measurement, payload, clock)
        call == [method |-> "write_data_point", data |-> <<point>>]
        Out(built, writes, w, stored, exc, ret) ==
            [built |-> built, writes |-> writes, wr |-> w, stored |-> stored,
             exc |-> exc, ret |-> ret]
    IN IF ~InfluxAvailable(h)
       THEN Out(<<>>, <<>>, "none", {}, "none", "false")
       ELSE IF payload.kind # "dict"
       \* line 59: payload.get on an int, str, list or None
       THEN Out(<<>>, <<>>, "none", {}, "AttributeError", "raise")
       ELSE IF DictGet(payload.val, "value") = NoneValue
       \* lines 60-62
       THEN Out(<<>>, <<>>, "none", {}, "none", "false")
       ELSE IF ~InfluxHasAttr(h, "write_data_point")
       \* line 95: the handler has no such method
       THEN Out(<<point>>, <<>>, "none", {}, "AttributeError", "raise")
       ELSE Out(<<point>>, <<call>>, wr, IF wr = "ok" THEN {point} ELSE {},
                IF wr = "raise" THEN "storage" ELSE "none", Returned(wr))

\* An except clause that lets the exception through.
ExceptReturnsFalse_Missing(r) == r

\* lines 108-110 and 136-138: except Exception: ...; return False
ExceptReturnsFalse(r) == IF r.ret = "raise" THEN [r EXCEPT !.ret = "false"] ELSE r

\* lines 42-110
ProcessOutcome(hi, hm, reg, clock, device_id, measurement, payload, mo, wr) ==
    LET r == ExceptReturnsFalse(StoreBody(hi, clock, device_id, measurement, payload, wr))
    IN [registry |-> TouchDevice(hm, reg, clock, device_id, mo),
        built |-> r.built, writes |-> r.writes, wr |-> r.wr, stored |-> r.stored,
        exc |-> r.exc, ret |-> r.ret]

NoIngest ==
    [op |-> "none", device_id |-> <<>>, measurement |-> <<>>, payload |-> None,
     at |-> 0, known |-> FALSE, built |-> <<>>, writes |-> <<>>, wr |-> "none",
     exc |-> "none", ret |-> "none", batch |-> <<>>]

\* The record of a process_mqtt_message call with outcome r.
IngestRecord(device_id, measurement, payload, r) ==
    [op |-> "process_mqtt_message", device_id |-> device_id,
     measurement |-> measurement, payload |-> payload, at |-> utcnow,
     known |-> device_id \in DOMAIN registry, built |-> r.built,
     writes |-> r.writes, wr |-> r.wr, exc |-> r.exc, ret |-> r.ret, batch |-> <<>>]

\* The outcomes that make a difference to a call.
MongoChoices == IF MongoAvailable(mongo_handler) THEN MongoOutcomes ELSE {"ok"}
WriteChoices ==
    IF InfluxAvailable(influx_handler) /\ influx_handler.kind = "extended"
    THEN WriteOutcomes ELSE {"ok"}

ProcessMqttMessage(device_id, measurement, payload) ==
    /\ Cardinality(bucket) < MaxPoints
    /\ \E mo \in MongoChoices, wr \in WriteChoices :
        LET r == ProcessOutcome(influx_handler, mongo_handler, registry, utcnow,
                                device_id, measurement, payload, mo, wr) IN
        /\ registry' = r.registry
        /\ bucket' = bucket \cup r.stored
        /\ ing' = IngestRecord(device_id, measurement, payload, r)
    /\ UNCHANGED <<influx_handler, mongo_handler, utcnow>>
    /\ UNCHANGED <<connVars, dmVars, cmdVars, msgVars>>

\* --------------------------------------------- DataProcessor.process_data_batch
\* lines 124-135, the body of the try block
BatchBody(h, data_batch, wr) ==
    LET call == [method |-> "write_data_points", data |-> data_batch]
        Set(q) == {q[k] : k \in 1..Len(q)}
    IN IF ~InfluxAvailable(h)
       THEN [writes |-> <<>>, wr |-> "none", stored |-> {}, exc |-> "none", ret |-> "false"]
       ELSE IF ~InfluxHasAttr(h, "write_data_points")
       \* line 125: the handler has no such method
       THEN [writes |-> <<>>, wr |-> "none", stored |-> {}, exc |-> "AttributeError",
             ret |-> "raise"]
       ELSE [writes |-> <<call>>, wr |-> wr,
             stored |-> IF wr = "ok" THEN Set(data_batch) ELSE {},
             exc |-> IF wr = "raise" THEN "storage" ELSE "none", ret |-> Returned(wr)]

\* lines 122-138
BatchOutcome(h, data_batch, wr) == ExceptReturnsFalse(BatchBody(h, data_batch, wr))

ProcessDataBatch(data_batch) ==
    /\ Cardinality(bucket) + Len(data_batch) <= MaxPoints
    /\ \E wr \in WriteChoices :
        LET r == BatchOutcome(influx_handler, data_batch, wr) IN
        /\ bucket' = bucket \cup r.stored
        /\ ing' = [NoIngest EXCEPT !.op = "process_data_batch", !.at = utcnow,
                                   !.writes = r.writes, !.wr = r.wr,
                                   !.exc = r.exc, !.ret = r.ret,
                                   !.batch = data_batch]
    /\ UNCHANGED <<influx_handler, mongo_handler, registry, utcnow>>
    /\ UNCHANGED <<connVars, dmVars, cmdVars, msgVars>>

\* ------------------------------------------------------------------ clock
\* Time passes.
Tick ==
    /\ utcnow < MaxTicks * TickMinutes
    /\ utcnow' = utcnow + TickMinutes
    /\ UNCHANGED <<influx_handler, mongo_handler, registry, bucket, ing>>
    /\ UNCHANGED <<connVars, dmVars, cmdVars, msgVars>>

\* ----------------------------------------------------------------- status
\* The status the registry keeps for a device (db.devices.status), "none" for
\* a device it does not hold.
RegistryStatus(d) == IF d \in DOMAIN registry THEN registry[d].status ELSE "none"

\* influx_handler.py lines 372-393: Online when the bucket holds a point of
\* the device whose time lies in the last five minutes.
InfluxStatus(d) ==
    IF ~influx_handler.up THEN "Offline"
    ELSE IF \E p \in bucket :
                p.device_id = d /\ utcnow - FreshnessWindow <= p.time /\ p.time <= utcnow
    THEN "Online" ELSE "Offline"

\* device_manager.py line 228: self.mqtt_handler.get_device_status(device_id)
DeviceManagerStatus(d) ==
    IF HasAttr("get_device_status") THEN "delegated" ELSE "AttributeError"

\* ------------------------------------------- _on_message, the whole handler
\* The callback that is the pipeline: DataProcessor.process_mqtt_message.
Pipeline == "process_mqtt_message"

\* The callbacks that can raise: process_mqtt_message catches every exception
\* itself (data_processor.py line 108).
FailPositions(cbs) == {0} \cup {k \in 1..Len(cbs) : cbs[k] # Pipeline}

\* Messages a device publishes: telemetry on devices/temp-1/data/sensors with
\* the payloads a decoder meets, and one message on a short topic.
TelemetryTopic == <<"devices", "/", "temp-1", "/", "data", "/", "sensors">>
TelemetryPayloads ==
    {Bytes("{\"value\": 22.3, \"timestamp\": \"2024-05-01T12:00:00Z\"}"),
     Bytes("42"), Bytes("hello"), BadBytes}
TelemetryMessages ==
    [topic : {TelemetryTopic}, payload : TelemetryPayloads]
        \cup {[topic |-> <<"devices", "/", "temp-1">>, payload |-> Bytes("hello")]}

\* The broker delivers a device's message to the network thread.
ArriveTelemetry ==
    /\ rx_alive /\ rx.stage # "arrived" /\ rx_count < MaxMsgs
    /\ \E m \in TelemetryMessages :
        rx' = [NoRx EXCEPT !.stage = "arrived", !.topic = m.topic, !.payload = m.payload]
    /\ rx_count' = rx_count + 1
    /\ UNCHANGED <<callbacks, rx_alive>>
    /\ UNCHANGED <<connVars, dmVars, cmdVars, ingVars>>

\* lines 119-142 with the callbacks' effects: a call of the pipeline runs
\* process_mqtt_message on the calling (network) thread.
OnMessage ==
    /\ rx.stage = "arrived"
    /\ \E failAt \in FailPositions(callbacks) :
        LET r == OnMessageResult(rx.topic, rx.payload, callbacks, failAt)
            piped == {k \in 1..Len(r.calls) : r.calls[k].cb = Pipeline}
        IN /\ rx' = [rx EXCEPT !.stage = "done", !.outcome = r.outcome,
                               !.calls = r.calls, !.cbs = callbacks]
           /\ rx_alive' = ~Escapes(r.outcome)
           /\ IF piped = {}
              THEN UNCHANGED <<registry, bucket, ing>>
              ELSE /\ Cardinality(bucket) < MaxPoints
                   /\ \E mo \in MongoChoices, wr \in WriteChoices :
                       LET c == r.calls[CHOOSE k \in piped : TRUE]
                           q == ProcessOutcome(influx_handler, mongo_handler, registry,
                                               utcnow, c.device_id, c.measurement,
                                               c.payload, mo, wr)
                       IN /\ registry' = q.registry
                          /\ bucket' = bucket \cup q.stored
                          /\ ing' = IngestRecord(c.device_id, c.measurement, c.payload, q)
    /\ UNCHANGED <<callbacks, rx_count>>
    /\ UNCHANGED <<influx_handler, mongo_handler, utcnow>>
    /\ UNCHANGED <<connVars, dmVars, cmdVars>>

\* ------------------------------------------------ DeviceManager.add_device
\* add_device stores the device (mongo_handler.add_device needs a connection
\* and refuses an id it already holds) and, lines 83-87, subscribes to the
\* device's topics only if the handler has publish_message and
\* subscribe_to_topic.
AddDevice(d) ==
    /\ pc[Main] = "idle"
    /\ LET result == MongoAvailable(mongo_handler) /\ d \notin dm_devices IN
        /\ dm_devices' = IF result THEN dm_devices \cup {d} ELSE dm_devices
        /\ registry' = IF result
                       THEN [x \in DOMAIN registry \cup {d} |->
                                IF x = d THEN NewDevice ELSE registry[x]]
                       ELSE registry
        /\ subs' = IF result /\ has_mqtt /\ HasAttr("subscribe_to_topic")
                      /\ sock \in {"pending", "up"}
                   THEN subs \cup {DevicePattern(d)}
                   ELSE subs
    /\ UNCHANGED <<connected, retry_count, retry_thread, tstate, pc, tmp, sock, loop, closed>>
    /\ UNCHANGED <<apiVars, cmdVars, msgVars>>
    /\ UNCHANGED <<influx_handler, mongo_handler, bucket, utcnow, ing>>

\* ------------------------------------------- REST API: devices and projects
\* main.py lines 260-279: the users and their roles
ApiUsers ==
    {[username |-> "admin", role |-> "Admin"],
     [username |-> "user", role |-> "User"],
     [username |-> "guest", role |-> "Guest"]}

\* Devices and projects the API is called with: a demo device and a new one,
\* a demo project and a new one, and project_id values that name a demo
\* project, the new project, no project (None) or a project that was never
\* created.
ApiDeviceIds == {"demo-temp-1", "new-1"}
ApiProjectIds == {"home-monitoring", "new-p"}
NewDeviceProjects == {Text("home-monitoring"), Text("new-p"), NoneValue}
DeviceUpdates ==
    {{<<"project_id", NoneValue>>},
     {<<"project_id", Text("no-such-project")>>},
     {<<"project_id", Text("new-p")>>},
     {<<"device_id", Text("other")>>, <<"name", Text("renamed")>>}}

\* for index, x in enumerate(list): if x[key] == id -- the first index, 0 if none
IndexOfDevice(devs, device_id) ==
    LET S == {i \in 1..Len(devs) : devs[i].device_id = device_id}
    IN IF S = {} THEN 0 ELSE Min(S)
IndexOfProject(projs, project_id) ==
    LET S == {i \in 1..Len(projs) : projs[i].project_id = project_id}
    IN IF S = {} THEN 0 ELSE Min(S)

\* list.pop(index)
Pop(list, i) == [k \in 1..(Len(list) - 1) |-> IF k < i THEN list[k] ELSE list[k + 1]]

\* main.py lines 433-476: refused for a Guest, for a device id already held,
\* for a missing project_id and for a project_id no project has; otherwise
\* the device is appended.
CreateDeviceResult(user, device, devs, projs) ==
    IF user.role = "Guest" THEN devs
    ELSE IF IndexOfDevice(devs, device.device_id) # 0 THEN devs
    ELSE IF ~Truthy(device.project_id) THEN devs
    ELSE IF \A i \in 1..Len(projs) : Text(projs[i].project_id) # device.project_id THEN devs
    ELSE Append(devs, device)

CreateDevice(user, device) ==
    /\ DEVICES' = CreateDeviceResult(user, device, DEVICES, PROJECTS)
    /\ UNCHANGED <<PROJECTS, db_projects, project_of>>
    /\ UNCHANGED <<connVars, dm_devices, cmdVars, msgVars, ingVars>>

\* main.py lines 499-501: every key of device_updates but device_id is set on
\* the device, whatever its value (of the keys, the model keeps project_id)
ApplyUpdates(device, device_updates) ==
    IF \E kv \in device_updates : kv[1] = "project_id"
    THEN [device EXCEPT !.project_id = DictGet(device_updates, "project_id")]
    ELSE device

\* main.py lines 481-507
UpdateDeviceResult(user, device_id, device_updates, devs) ==
    LET index == IndexOfDevice(devs, device_id)
    IN IF user.role = "Guest" \/ index = 0 THEN devs
       ELSE [devs EXCEPT ![index] = ApplyUpdates(devs[index], device_updates)]

UpdateDevice(user, device_id, device_updates) ==
    /\ DEVICES' = UpdateDeviceResult(user, device_id, device_updates, DEVICES)
    /\ UNCHANGED <<PROJECTS, db_projects, project_of>>
    /\ UNCHANGED <<connVars, dm_devices, cmdVars, msgVars, ingVars>>

\* main.py lines 512-530: Admin only; the device is popped from the list
DeleteDeviceResult(user, device_id, devs) ==
    LET index == IndexOfDevice(devs, device_id)
    IN IF user.role # "Admin" \/ index = 0 THEN devs ELSE Pop(devs, index)

DeleteDevice(user, device_id) ==
    /\ DEVICES' = DeleteDeviceResult(user, device_id, DEVICES)
    /\ UNCHANGED <<PROJECTS, db_projects, project_of>>
    /\ UNCHANGED <<connVars, dm_devices, cmdVars, msgVars, ingVars>>

\* main.py lines 688-714: refused for a Guest and for a project id already
\* held; otherwise the project is appended with the caller as its owner
CreateProjectResult(user, project_id, projs) ==
    IF user.role = "Guest" \/ IndexOfProject(projs, project_id) # 0 THEN projs
    ELSE Append(projs, [project_id |-> project_id, owner |-> user.username])

CreateProject(user, project_id) ==
    /\ PROJECTS' = CreateProjectResult(user, project_id, PROJECTS)
    /\ UNCHANGED <<DEVICES, db_projects, project_of>>
    /\ UNCHANGED <<connVars, dm_devices, cmdVars, msgVars, ingVars>>

\* main.py lines 719-738: by an Admin or the owner, the project is popped from
\* the list; the devices are not looked at
DeleteProjectResult(user, project_id, projs) ==
    LET index == IndexOfProject(projs, project_id)
    IN IF index = 0 THEN projs
       ELSE IF user.role # "Admin" /\ projs[index].owner # user.username THEN projs
       ELSE Pop(projs, index)

DeleteProject(user, project_id) ==
    /\ PROJECTS' = DeleteProjectResult(user, project_id, PROJECTS)
    /\ UNCHANGED <<DEVICES, db_projects, project_of>>
    /\ UNCHANGED <<connVars, dm_devices, cmdVars, msgVars, ingVars>>

\* ------------------------------------------- registry: devices and projects
\* mongo_handler.create_project lines 426-449
MongoCreateProject(project_id) ==
    /\ db_projects' = IF MongoAvailable(mongo_handler)
                      THEN db_projects \cup {project_id} ELSE db_projects
    /\ UNCHANGED <<DEVICES, PROJECTS, project_of>>
    /\ UNCHANGED <<connVars, dm_devices, cmdVars, msgVars, ingVars>>

\* mongo_handler.add_device lines 240-268: refused for a device id already
\* held and for a project_id that is given and names no project; a
\* project_id of None is accepted.
MongoAddDeviceOk(device_id, project_id) ==
    /\ MongoAvailable(mongo_handler)
    /\ device_id \notin DOMAIN registry
    /\ Truthy(project_id) => project_id \in db_projects

MongoAddDevice(device_id, project_id) ==
    /\ registry' = IF MongoAddDeviceOk(device_id, project_id)
                   THEN [x \in DOMAIN registry \cup {device_id} |->
                            IF x = device_id THEN NewDevice ELSE registry[x]]
                   ELSE registry
    /\ project_of' = IF MongoAddDeviceOk(device_id, project_id) /\ project_id # NoneValue
                     THEN [x \in DOMAIN project_of \cup {device_id} |->
                              IF x = device_id THEN project_id ELSE project_of[x]]
                     ELSE project_of
    /\ UNCHANGED <<DEVICES, PROJECTS, db_projects>>
    /\ UNCHANGED <<influx_handler, mongo_handler, bucket, utcnow, ing>>
    /\ UNCHANGED <<connVars, dm_devices, cmdVars, msgVars>>

\* mongo_handler.remove_device lines 396-408
MongoRemoveDevice(device_id) ==
    /\ registry' = IF MongoAvailable(mongo_handler)
                   THEN [x \in DOMAIN registry \ {device_id} |-> registry[x]]
                   ELSE registry
    /\ project_of' = IF MongoAvailable(mongo_handler)
                     THEN [x \in DOMAIN project_of \ {device_id} |-> project_of[x]]
                     ELSE project_of
    /\ UNCHANGED <<DEVICES, PROJECTS, db_projects>>
    /\ UNCHANGED <<influx_handler, mongo_handler, bucket, utcnow, ing>>
    /\ UNCHANGED <<connVars, dm_devices, cmdVars, msgVars>>

\* mongo_handler.remove_project lines 521-540: the project is deleted and
\* the project_id of every device that named it is set to None
MongoRemoveProjectOk(project_id) ==
    MongoAvailable(mongo_handler) /\ project_id \in db_projects

MongoRemoveProject(project_id) ==
    /\ db_projects' = IF MongoRemoveProjectOk(project_id)
                      THEN db_projects \ {project_id} ELSE db_projects
    /\ project_of' = IF MongoRemoveProjectOk(project_id)
                     THEN [x \in {y \in DOMAIN project_of : project_of[y] # project_id} |->
                              project_of[x]]
                     ELSE project_of
    /\ UNCHANGED <<DEVICES, PROJECTS>>
    /\ UNCHANGED <<connVars, dm_devices, cmdVars, msgVars, ingVars>>

\* db.devices.project_id of a device the registry holds
ProjectOf(device_id) ==
    IF device_id \in DOMAIN project_of THEN project_of[device_id] ELSE NoneValue

\* ------------------------------------------------------------------- next
ConnNext ==
    \/ \E t \in Threads : Connect(t)
    \/ \E t \in Threads : ScheduleReconnect(t)
    \/ BrokerAckOk \/ OcFlag \/ OcReset \/ OcSub
    \/ BrokerAckRefused \/ OcfFlag
    \/ ConnectionLost \/ DisconnectSent \/ LoopReconnect
    \/ \E t \in Threads : OnDisconnect(t)
    \/ \E i \in TimerIds : TimerFires(i)
    \/ \E i \in TimerIds : TimerExits(i)
    \/ Close

Next ==
    \/ ConnNext
    \/ \E d \in DeviceIds : AddDevice(d)

Spec == Init /\ [][Next]_vars

\* The connection manager together with its callers' publish / send_command.
NextCmd ==
    \/ ConnNext
    \/ \E topic \in PubTopics, payload \in PubPayloads : Publish(topic, payload)
    \/ \E d \in DeviceIds, c \in Commands, payload \in CmdPayloads, now \in Times :
          SendCommand(d, c, payload, now)

SpecCmd == Init /\ [][NextCmd]_vars

\* The connection manager with commands sent through the device manager.
NextDm ==
    \/ ConnNext
    \/ \E d \in DeviceIds, c \in Commands, payload \in CmdPayloads :
          DmSendCommand(d, c, payload)
    \/ \E d \in DeviceIds : RestartDevice(d)

SpecDm == Init /\ [][NextDm]_vars

\* The receive path: callbacks are registered, messages arrive and are handled.
NextMsg ==
    \/ \E cb \in CallbackIds : RegisterCallback(cb)
    \/ Arrive
    \/ OnMessage

SpecMsg == Init /\ [][NextMsg]_vars

\* The pipeline with any pair of adapters, over a registry that holds the
\* devices or is empty (what an unreachable registry holds makes no
\* difference).
KnownDevices == {<<"d1">>, <<"temp-1">>}

InitPipeline ==
    /\ InitConn
    /\ InitApi
    /\ last_call = NoCall
    /\ callbacks = <<>>
    /\ rx = NoRx
    /\ rx_alive = TRUE
    /\ rx_count = 0
    /\ influx_handler \in StorageAdapters
    /\ mongo_handler \in RegistryAdapters
    /\ dm_devices \in (IF MongoAvailable(mongo_handler)
                        THEN {{}, KnownDevices} ELSE {KnownDevices})
    /\ registry = RegistryOf(dm_devices)
    /\ bucket = {}
    /\ utcnow = 0
    /\ ing = NoIngest

\* The pipeline called directly, while time passes.
NextIngest ==
    \/ \E d \in DeviceIds, m \in Measurements, payload \in IngestPayloads :
          ProcessMqttMessage(d, m, payload)
    \/ \E data_batch \in Batches : ProcessDataBatch(data_batch)
    \/ Tick

SpecIngest == InitPipeline /\ [][NextIngest]_vars

\* End to end: the pipeline is registered as a callback (alone or after
\* another callback) and a device's messages arrive.
NextTelemetry ==
    \/ \E cb \in {"cb1", Pipeline} : RegisterCallback(cb)
    \/ ArriveTelemetry
    \/ OnMessage

SpecTelemetry == InitPipeline /\ [][NextTelemetry]_vars

\* Every operation that has an except clause, with adapters that fail: the
\* pipeline and another callback are registered, the broker accepts the
\* session, messages arrive, batches are stored, the caller publishes.
InitFailing ==
    /\ InitConn
    /\ InitApi
    /\ last_call = NoCall
    /\ callbacks = <<"cb1", Pipeline>>
    /\ rx = NoRx
    /\ rx_alive = TRUE
    /\ rx_count = 0
    /\ influx_handler \in {InfluxDBHandler(TRUE), ExtendedInflux(TRUE)}
    /\ mongo_handler = MongoDBHandler(TRUE)
    /\ dm_devices = KnownDevices
    /\ registry = RegistryOf(dm_devices)
    /\ bucket = {}
    /\ utcnow = 0
    /\ ing = NoIngest

NextFailing ==
    \/ ConnectOk(Main) \/ LoopStart(Main)
    \/ BrokerAckOk \/ OcFlag \/ OcReset \/ OcSub
    \/ \E topic \in PubTopics : Publish(topic, Str("hello"))
    \/ ArriveTelemetry
    \/ OnMessage
    \/ \E data_batch \in Batches : ProcessDataBatch(data_batch)

SpecFailing == InitFailing /\ [][NextFailing]_vars

\* The REST API's and the registry's operations on devices and projects.
NextApi ==
    \/ \E user \in ApiUsers, d \in ApiDeviceIds, p \in NewDeviceProjects :
          CreateDevice(user, [device_id |-> d, project_id |-> p])
    \/ \E user \in ApiUsers, d \in ApiDeviceIds, u \in DeviceUpdates :
          UpdateDevice(user, d, u)
    \/ \E user \in ApiUsers, d \in ApiDeviceIds : DeleteDevice(user, d)
    \/ \E user \in ApiUsers, p \in ApiProjectIds : CreateProject(user, p)
    \/ \E user \in ApiUsers, p \in ApiProjectIds : DeleteProject(user, p)
    \/ \E p \in ApiProjectIds : MongoCreateProject(Text(p))
    \/ \E d \in KnownDevices, p \in NewDeviceProjects : MongoAddDevice(d, p)
    \/ \E d \in KnownDevices : MongoRemoveDevice(d)
    \/ \E p \in ApiProjectIds : MongoRemoveProject(Text(p))

SpecApi == Init /\ [][NextApi]_vars

\* ================================================================= claims

\* C1: at most one retry timer is pending in every reachable state, under
\* every interleaving of the constructing thread, the network-loop thread and
\* the retry-timer threads; a failure event that arrives while a retry is
\* scheduled creates no second timer.
C1_AtMostOnePendingTimer == Cardinality(PendingTimers) <= 1

\* A failure event is being handled (the handler stands at the is_alive check
\* of line 84, having counted the failure) while a retry timer is pending.
C1_Witness ==
    /\ pc[Loop] = "sr_alive"
    /\ retry_thread # 0 /\ Pending(retry_thread)
    /\ retry_count >= 2

\* No thread will run again unless the caller acts: every handler has
\* returned, no Timer thread is alive and the network loop is not running.
AtRest ==
    /\ \A t \in Threads : pc[t] = "idle"
    /\ \A i \in TimerIds : ~IsAlive(i)
    /\ loop # "running"

\* C2: after a failed connection attempt with retry_count below max_retries
\* and close() not called, a further attempt is made: the manager never rests
\* in a state that is not connected, has retry_count < max_retries and has no
\* retry timer pending.
C2_NeverRestsUnconnected ==
    ~(AtRest /\ ~closed /\ ~connected /\ retry_count < max_retries /\ PendingTimers = {})

\* C3: retry_count never exceeds max_retries.
C3_RetryCountBounded == retry_count <= max_retries

\* The subscriptions the claim counts as registered: the telemetry wildcard
\* and the per-device pattern of every device added through the device manager.
Registered == {Wildcard} \cup {DevicePattern(d) : d \in dm_devices}

\* C4: once a successful broker ack has been handled (the session is up and
\* _on_connect has returned), a subscribe has been issued on that session for
\* every registered subscription.
C4_AllSubscriptionsReplayed ==
    (sock = "up" /\ pc[Loop] = "idle") => Registered \subseteq subs

\* Thread t executes client.connect (line 72) in this step.
ConnectCalled(t) == pc[t] = "connect" /\ pc'[t] # "connect"

\* C5: after close() has returned no connection attempt is initiated and no
\* retry timer is pending.
C5_NoAttemptAfterClose ==
    [][closed => (PendingTimers' = {} /\ \A t \in Threads : ~ConnectCalled(t))]_vars

\* C6: once close() has returned, is_connected() reports False.
C6_ClosedIsDisconnected == closed => ~connected

\* The manager is Connecting (a CONNECT is awaiting its ack) or Connected.
ConnectingOrConnected == connected \/ sock \in {"pending", "up"}

\* C8: a connect invocation while the manager is Connecting or Connected is a
\* no-op: no new broker session, connected and retry_count unchanged.
C8_ConnectIdempotent ==
    [][\A t \in Threads :
        (ConnectCalled(t) /\ ConnectingOrConnected)
            => (sock' = sock /\ connected' = connected /\ retry_count' = retry_count)]_vars

\* C7: publish returns False whenever the manager is not Connected, hands
\* nothing to the transport client then, and changes neither connected,
\* retry_count nor the retry timer; it returns True only when the manager is
\* Connected and the transport reports success.
C7_PublishOnlyWhenConnected ==
    /\ [](last_call.op = "publish" =>
            /\ (~last_call.conn => (last_call.ret = "false" /\ last_call.handed = <<>>))
            /\ (last_call.ret = "true" => (last_call.conn /\ last_call.tr = "ok")))
    /\ [][last_call' # last_call =>
            UNCHANGED <<connected, retry_count, retry_thread, tstate>>]_vars

\* publish was refused while the manager was not connected and a retry timer
\* was pending.
C7_Witness ==
    /\ last_call.op = "publish" /\ ~last_call.conn /\ last_call.ret = "false"
    /\ ~connected /\ PendingTimers # {}

\* C9: send_command when Connected hands exactly one message to the transport,
\* on topic devices/<device_id>/commands/<command>, carrying the payload with
\* the dispatch timestamp added; when not Connected it returns False and hands
\* nothing over, and nothing is handed over later by the connection manager.
C9_SendCommandAtMostOnce ==
    /\ [](last_call.op = "send_command" =>
            IF last_call.conn
            THEN /\ Len(last_call.handed) = 1
                 /\ last_call.handed[1].topic =
                      <<"devices", "/">> \o last_call.dev \o <<"/", "commands", "/">>
                          \o last_call.cmd
                 /\ last_call.handed[1].payload.kind = "json"
                 /\ <<"timestamp", <<"iso", last_call.now>>>> \in last_call.handed[1].payload.val
                 /\ \A kv \in last_call.arg.val :
                        kv[1] # "timestamp" => kv \in last_call.handed[1].payload.val
                 /\ \A kv \in last_call.handed[1].payload.val :
                        kv[1] # "timestamp" => kv \in last_call.arg.val
            ELSE last_call.ret = "false" /\ last_call.handed = <<>>)
    /\ [][connVars' # connVars => last_call' = last_call]_vars

\* A command with a payload was dispatched while connected and accepted by
\* the transport.
C9_Witness ==
    /\ last_call.op = "send_command" /\ last_call.conn /\ last_call.ret = "true"
    /\ last_call.arg.kind = "dict" /\ Len(last_call.handed) = 1

\* A command was refused while not connected, and the manager connected later.
C9_WitnessRefused ==
    /\ last_call.op = "send_command" /\ ~last_call.conn /\ last_call.ret = "false"
    /\ connected /\ sock = "up"

\* The number of "/" in a topic.
RECURSIVE Slashes(_)
Slashes(s) == IF s = <<>> THEN 0 ELSE (IF Head(s) = "/" THEN 1 ELSE 0) + Slashes(Tail(s))

\* The segments joined by "/" again.
RECURSIVE Join(_)
Join(parts) ==
    IF Len(parts) = 1 THEN parts[1] ELSE parts[1] \o <<"/">> \o Join(Tail(parts))

\* C10: for a handled message whose topic has four or more slash-delimited
\* segments the callbacks receive device_id = segment 1 and channel = segment
\* 3, and every registered callback is reached when nothing raises; a topic
\* with fewer than four segments is dropped with no callback invoked; in both
\* cases the handler returns normally, so later messages are processed.
C10_TopicParsing ==
    rx.stage = "done" =>
        LET parts == Split(rx.topic) IN
        /\ Join(parts) = rx.topic
        /\ \A k \in 1..Len(parts) : \A j \in 1..Len(parts[k]) : parts[k][j] # "/"
        /\ rx_alive
        /\ IF Slashes(rx.topic) >= 3
           THEN /\ \A k \in 1..Len(rx.calls) :
                     /\ rx.calls[k].device_id = parts[2]
                     /\ rx.calls[k].measurement = parts[4]
                /\ rx.outcome = "dispatched" => Len(rx.calls) = Len(rx.cbs)
                /\ rx.outcome # "invalid_topic"
           ELSE rx.outcome = "invalid_topic" /\ rx.calls = <<>>

\* A message on a four-segment topic whose device id and channel differ was
\* dispatched to two callbacks.
C10_Witness ==
    /\ rx.stage = "done" /\ rx.outcome = "dispatched"
    /\ rx.topic = <<"a", "/", "a", "/", "a", "/", "b">>
    /\ Len(rx.calls) = 2
    /\ rx.calls[1].device_id = <<"a">> /\ rx.calls[2].measurement = <<"b">>

\* A message was handled after a message with a short topic had been dropped.
C10_WitnessLater ==
    /\ rx_count = 2 /\ rx.stage = "done" /\ rx.outcome = "dispatched"

\* A payload that is UTF-8 text but not a JSON object.
NonStructured(payload) ==
    payload.utf8 /\ ~(JsonLoads(payload.text).ok /\ JsonLoads(payload.text).value.kind = "dict")

\* The message handled last was passed to the pipeline.
Piped == \E k \in 1..Len(rx.calls) : rx.calls[k].cb = Pipeline

\* C11: a payload that is not structured key-value data (the text 42, the
\* text hello) is decoded to the degraded reading whose only field is value,
\* set to the payload's text, with the ingestion time as its timestamp.
C11_NonStructuredDegraded ==
    (rx.stage = "done" /\ Piped /\ NonStructured(rx.payload)
        /\ InfluxAvailable(influx_handler))
    => ing.built = <<[measurement |-> Split(rx.topic)[4], device_id |-> Split(rx.topic)[2],
                      time |-> ing.at,
                      fields |-> {<<"value", <<"str", rx.payload.text>>>>}]>>

\* The instant a payload's timestamp field names, when it names one: the two
\* ISO texts of the inputs stand for minute 0 and minute 3 of the clock.
StampOf(payload, at) ==
    IF <<"timestamp", <<"str", "2024-05-01T12:00:00Z">>>> \in payload.val THEN 0
    ELSE IF <<"timestamp", <<"str", "2024-05-01T12:03:00Z">>>> \in payload.val THEN 3
    ELSE at

\* C12: the reading decoded from a structured payload carries the payload's
\* timestamp when that is present and parseable and the ingestion time
\* otherwise, and its fields are exactly the payload's entries without the
\* reserved keys device_id and timestamp; so no point handed to the storage
\* by the decoder has a field named device_id or timestamp.
C12_StructuredDecoding ==
    (ing.op = "process_mqtt_message" /\ ing.payload.kind = "dict") =>
        /\ \A k \in 1..Len(ing.built) :
            /\ ing.built[k].time = StampOf(ing.payload, ing.at)
            /\ ing.built[k].fields =
                 {kv \in ing.payload.val : kv[1] # "device_id" /\ kv[1] # "timestamp"}
        /\ \A k \in 1..Len(ing.writes) : \A j \in 1..Len(ing.writes[k].data) :
            \A kv \in ing.writes[k].data[j].fields :
                kv[1] # "device_id" /\ kv[1] # "timestamp"

\* A payload with both reserved keys and a parseable timestamp was stored
\* three minutes after the instant its timestamp names.
C12_Witness ==
    /\ ing.op = "process_mqtt_message" /\ ing.payload = P_Reserved
    /\ ing.at = 6 /\ ing.ret = "true"
    /\ Len(ing.built) = 1 /\ ing.built[1].time = 3

\* C13: decoding is total: for every message on a valid topic, whatever its
\* payload, the handler returns normally and a reading (a dict) is delivered
\* to the registered callbacks.
C13_DecodingTotal ==
    (rx.stage = "done" /\ Len(Split(rx.topic)) >= 4 /\ Len(rx.cbs) > 0) =>
        /\ rx_alive
        /\ Len(rx.calls) >= 1
        /\ \A k \in 1..Len(rx.calls) : rx.calls[k].payload.kind = "dict"

\* A reading process_mqtt_message is called with is valid: a device id that
\* is not empty and at least one field.
ValidReading ==
    /\ ing.device_id # <<>>
    /\ ing.payload.kind = "dict"
    /\ {kv \in ing.payload.val : kv[1] # "device_id" /\ kv[1] # "timestamp"} # {}

\* C14: process_mqtt_message returns False whenever the storage adapter is
\* absent or disconnected, and True for every valid reading when the storage
\* adapter is connected (and the write does not fail), whether or not the
\* device is registered and whether or not the registry is connected.
C14_IngestResult ==
    ing.op = "process_mqtt_message" =>
        /\ ~InfluxAvailable(influx_handler) => ing.ret = "false"
        /\ (InfluxAvailable(influx_handler) /\ ValidReading
                /\ ing.wr \notin {"fail", "raise"}) => ing.ret = "true"

\* C15: process_mqtt_message returns True only if the storage write reported
\* success, returns False when the write failed (by result or by exception),
\* and attempts the write at most once per call.
C15_TrueOnlyOnStoredWrite ==
    ing.op = "process_mqtt_message" =>
        /\ ing.ret = "true" =>
              (ing.wr = "ok" /\ Len(ing.writes) = 1 /\ ing.writes[1].data[1] \in bucket)
        /\ ing.wr \in {"fail", "raise"} => ing.ret = "false"
        /\ ing.ret \in {"true", "false"}
        /\ Len(ing.writes) <= 1

\* A write was attempted once, raised, and the call returned False.
C15_Witness ==
    /\ ing.op = "process_mqtt_message" /\ ing.wr = "raise"
    /\ Len(ing.writes) = 1 /\ ing.ret = "false"

\* A write was attempted once, succeeded, and the call returned True.
C15_WitnessStored ==
    /\ ing.op = "process_mqtt_message" /\ ing.wr = "ok"
    /\ Len(ing.writes) = 1 /\ ing.ret = "true"

\* The last pipeline call ingested a reading of device d successfully.
Ingested(d) == ing.op = "process_mqtt_message" /\ ing.device_id = d /\ ing.ret = "true"

\* The status of device d by each path the code reports it.
StatusPaths(d) == {RegistryStatus(d), InfluxStatus(d), DeviceManagerStatus(d)}

\* C16: right after an ingest for device d every status path reports Online,
\* and once the freshness window has elapsed with no further reading for d
\* every status path reports Offline.
C16_StatusFreshness ==
    \A d \in DeviceIds :
        Ingested(d) =>
            /\ utcnow = ing.at => StatusPaths(d) = {"Online"}
            /\ utcnow > ing.at + FreshnessWindow => StatusPaths(d) = {"Offline"}

\* C16, for the status the registry keeps of a registered device.
C16_RegistryPath ==
    \A d \in DeviceIds :
        (Ingested(d) /\ ing.known /\ MongoAvailable(mongo_handler)
            /\ utcnow > ing.at + FreshnessWindow) => RegistryStatus(d) = "Offline"

\* C16, for the windowed storage query.
C16_InfluxPath ==
    \A d \in DeviceIds :
        Ingested(d) =>
            /\ utcnow = ing.at => InfluxStatus(d) = "Online"
            /\ utcnow > ing.at + FreshnessWindow => InfluxStatus(d) = "Offline"

\* The telemetry message of the end-to-end example: a JSON object with a
\* value and the parseable timestamp 2024-05-01T12:00:00Z (minute 0).
StampedTelemetry ==
    /\ rx.topic = <<"devices", "/", "temp-1", "/", "data", "/", "sensors">>
    /\ rx.payload = Bytes("{\"value\": 22.3, \"timestamp\": \"2024-05-01T12:00:00Z\"}")

\* C17: end to end, with the pipeline registered and the storage connected, a
\* message on devices/temp-1/data/sensors carrying a value and a parseable
\* timestamp results in exactly one storage point {sensors, device_id temp-1,
\* that time, the payload's fields without the reserved keys}, and the
\* device's status is Online afterwards.
C17_EndToEnd ==
    (rx.stage = "done" /\ StampedTelemetry /\ Piped
        /\ InfluxAvailable(influx_handler) /\ ing.wr \notin {"fail", "raise"})
    => /\ Len(ing.writes) = 1
       /\ ing.writes[1].data =
            <<[measurement |-> <<"sensors">>, device_id |-> <<"temp-1">>, time |-> 0,
               fields |-> {<<"value", <<"num", "22.3">>>>}]>>
       /\ ing.writes[1].data[1] \in bucket
       /\ InfluxStatus(<<"temp-1">>) = "Online"

\* C18: no exception leaves _on_message, process_mqtt_message,
\* process_data_batch or publish, whatever the message, the callbacks, the
\* storage, the registry or the transport do: a call ends in a dropped
\* message or a False return, and the messages that follow are handled.
C18_NoErrorEscalated ==
    /\ rx_alive
    /\ ing.ret \in {"none", "true", "false"}
    /\ last_call.ret \in {"none", "true", "false"}
    /\ (ing.exc # "none" => ing.ret = "false")
    /\ (last_call.tr = "raise" => last_call.ret = "false")
    /\ (rx.outcome = "error" => rx.stage = "done")

\* A second message was handled, the storage write of its pipeline call
\* raised and the call returned False, and a publish raised in the transport.
C18_Witness ==
    /\ rx_count = 2 /\ rx.stage = "done" /\ Piped
    /\ ing.op = "process_mqtt_message" /\ ing.exc = "storage" /\ ing.ret = "false"
    /\ last_call.op = "publish" /\ last_call.tr = "raise"

\* The handling of a message ended in the except clause, and a batch call
\* that raised returned False.
C18_WitnessBatch ==
    /\ ing.op = "process_data_batch" /\ ing.exc # "none" /\ ing.ret = "false"
    /\ rx.stage = "done" /\ rx.outcome = "error"

\* C19: process_data_batch with a connected storage adapter hands the whole
\* batch to the storage in exactly one call and returns that call's result
\* (False when the call raised); with the adapter absent or disconnected it
\* makes no storage call and returns False.
C19_BatchOneCall ==
    ing.op = "process_data_batch" =>
        IF InfluxAvailable(influx_handler)
        THEN /\ Len(ing.writes) = 1
             /\ ing.writes[1].data = ing.batch
             /\ ing.ret = (IF ing.wr = "ok" THEN "true" ELSE "false")
             /\ ing.wr = "ok" => \A k \in 1..Len(ing.batch) : ing.batch[k] \in bucket
        ELSE ing.writes = <<>> /\ ing.ret = "false"

\* C20: for a message on a valid topic with decodable payload, every
\* registered callback is invoked exactly once and in registration order,
\* also when an earlier callback fails; a callback registered twice is held
\* (and invoked) once.
C20_EveryCallbackOnce ==
    /\ \A j, k \in 1..Len(callbacks) : callbacks[j] = callbacks[k] => j = k
    /\ (rx.stage = "done" /\ Len(Split(rx.topic)) >= 4 /\ rx.payload.utf8) =>
          /\ Len(rx.calls) = Len(rx.cbs)
          /\ \A k \in 1..Len(rx.calls) : rx.calls[k].cb = rx.cbs[k]

\* C20 when no callback fails.
C20_OrderWhenNoneFails ==
    /\ \A j, k \in 1..Len(callbacks) : callbacks[j] = callbacks[k] => j = k
    /\ (rx.stage = "done" /\ rx.outcome = "dispatched") =>
          /\ Len(rx.calls) = Len(rx.cbs)
          /\ \A k \in 1..Len(rx.calls) : rx.calls[k].cb = rx.cbs[k]

\* C21: every ingest for a device d updates d's liveness record: after a
\* successful ingest for d, with the registry reachable, the registry holds a
\* record for d (created by the first reading when d was not registered
\* before) whose last_seen is the time of that ingest.
C21_LivenessRecordUpdated ==
    \A d \in DeviceIds :
        (Ingested(d) /\ MongoAvailable(mongo_handler)) =>
            /\ d \in DOMAIN registry
            /\ registry[d].last_seen = ing.at

\* C22: the two liveness computations agree: in every reachable state, for
\* every device the registry holds, the status cached by ingest in the
\* registry equals the status of the windowed storage query over the last
\* five minutes (registry and storage both reachable).
C22_LivenessPathsAgree ==
    \A d \in DeviceIds :
        (d \in DOMAIN registry /\ MongoAvailable(mongo_handler)
            /\ InfluxAvailable(influx_handler)) =>
            RegistryStatus(d) = InfluxStatus(d)

\* C22, after a reading of a registered device was stored and cached: the
\* two statuses agree whatever the reading's own timestamp and however much
\* time has passed since.
C22_AgreeAfterIngest ==
    \A d \in DeviceIds :
        (Ingested(d) /\ ing.known /\ RegistryStatus(d) = "Online"
            /\ registry[d].last_seen = ing.at) =>
            InfluxStatus(d) = "Online"

\* C23: for every topic with four or more slash-delimited segments (segments
\* may be empty), every reading handed to a callback - and so every point the
\* pipeline builds from it - has a non-empty device_id.
C23_DeviceIdNonEmpty ==
    (rx.stage = "done" /\ Slashes(rx.topic) >= 3) =>
        \A k \in 1..Len(rx.calls) : rx.calls[k].device_id # <<>>

\* C24: connected and retry_count are updated atomically, so that every
\* interleaving of _schedule_reconnect, _on_connect and _on_disconnect leaves
\* the values of some serial execution: the increment of line 83 stores one
\* more than the value retry_count has when it is stored (no increment is
\* lost, and no reset to 0 is overwritten by an increment of an older value).
C24_AtomicUpdates ==
    [][\A t \in Threads :
          (pc[t] = "sr_write" /\ pc'[t] = "sr_alive") =>
              retry_count' = retry_count + 1]_vars

\* C25: DeviceManager.send_command and restart_device publish to the topic
\* MQTTHandler.send_command uses, devices/<device_id>/commands/<command>, and
\* return what MQTTHandler.send_command can return for the same arguments in
\* the same connection state: a boolean, False with nothing handed over and
\* nothing raised when not Connected.
C25_DeviceManagerSendCommand ==
    last_call.op \in {"dm_send_command", "restart_device"} =>
        /\ DmCommandTopic(last_call.dev) = CommandTopic(last_call.dev, last_call.cmd)
        /\ \E tr \in TransportOutcomes :
              LET r == PublishOutcome(last_call.conn,
                                      CommandTopic(last_call.dev, last_call.cmd),
                                      Stamped(last_call.arg, last_call.now), tr)
              IN last_call.ret = r.ret /\ last_call.handed = r.handed
        /\ ~last_call.conn => last_call.ret = "false"

\* C25, the topic alone.
C25_SameTopic ==
    last_call.op \in {"dm_send_command", "restart_device"} =>
        DmCommandTopic(last_call.dev) = CommandTopic(last_call.dev, last_call.cmd)

\* C25, the value returned while not Connected.
C25_FalseWhenDisconnected ==
    (last_call.op \in {"dm_send_command", "restart_device"} /\ ~last_call.conn) =>
        last_call.ret = "false"

\* The positions of _schedule_reconnect after the increment of line 83.
AfterIncrement == {"sr_alive", "sr_new", "sr_daemon", "sr_start"}

\* C26: retry_count equals the number of retry timers scheduled since the
\* last successful connect (or construction): a call of _schedule_reconnect
\* that has incremented retry_count returns only by starting a retry timer,
\* so that max_retries is reached only by attempts that were actually made.
C26_CountsScheduledTimers ==
    [][\A t \in Threads :
          (pc[t] \in AfterIncrement /\ pc'[t] \notin AfterIncrement) =>
              /\ pc[t] = "sr_start"
              /\ tstate[retry_thread] # "waiting"
              /\ tstate'[retry_thread] = "waiting"]_vars

\* C27: connected = True implies retry_count = 0 and no retry timer pending,
\* in every state in which no handler is in the middle of its updates.
C27_ConnectedMeansNoRetry ==
    (connected /\ \A t \in Threads : pc[t] = "idle") =>
        /\ retry_count = 0
        /\ PendingTimers = {}

\* C27, the counter alone.
C27_ConnectedMeansCountZero ==
    (connected /\ \A t \in Threads : pc[t] = "idle") => retry_count = 0

\* C27, the timer alone.
C27_ConnectedMeansNoTimer ==
    (connected /\ \A t \in Threads : pc[t] = "idle") => PendingTimers = {}

\* C28: when process_mqtt_message returns False because the payload has no
\* value field, the call writes no storage point and leaves the registry's
\* status and last_seen of the device unchanged.
C28_NoValueNoEffect ==
    [][(/\ ing' # ing
        /\ ing'.op = "process_mqtt_message"
        /\ InfluxAvailable(influx_handler)
        /\ ing'.payload.kind = "dict"
        /\ DictGet(ing'.payload.val, "value") = NoneValue
        /\ ing'.ret = "false") =>
            /\ ing'.writes = <<>>
            /\ bucket' = bucket
            /\ registry' = registry]_vars

\* C28, the storage alone: a call refused for a missing value writes no point.
C28_NoValueNoPoint ==
    [][(/\ ing' # ing
        /\ ing'.op = "process_mqtt_message"
        /\ InfluxAvailable(influx_handler)
        /\ ing'.payload.kind = "dict"
        /\ DictGet(ing'.payload.val, "value") = NoneValue
        /\ ing'.ret = "false") =>
            /\ ing'.writes = <<>>
            /\ bucket' = bucket]_vars

\* C29: after any sequence of create, update and delete operations on devices
\* and projects, every stored device has a project_id that names an existing
\* project - in the REST API's lists and in the registry's collections.
C29_ReferentialIntegrity ==
    /\ \A i \in 1..Len(DEVICES) :
          \E j \in 1..Len(PROJECTS) :
              DEVICES[i].project_id = Text(PROJECTS[j].project_id)
    /\ \A d \in DOMAIN registry : ProjectOf(d) \in db_projects

\* C29, for the REST API's lists alone.
C29_ApiIntegrity ==
    \A i \in 1..Len(DEVICES) :
        \E j \in 1..Len(PROJECTS) :
            DEVICES[i].project_id = Text(PROJECTS[j].project_id)

\* C29, for the registry's collections alone.
C29_RegistryIntegrity ==
    \A d \in DOMAIN registry : ProjectOf(d) \in db_projects

\* A telemetry topic devices/{id}/data/{ch}.
IsTelemetryTopic(topic) ==
    LET parts == Split(topic)
    IN Len(parts) = 4 /\ parts[1] = <<"devices">> /\ parts[3] = <<"data">>

\* C30: the two topic parsers agree: for a telemetry topic
\* devices/{id}/data/{ch} the receive callback has handled,
\* utils.parse_mqtt_topic returns the device_id and the channel that
\* _on_message extracts and hands to the callbacks (device_id = id,
\* channel = ch).
C30_ParsersAgree ==
    (rx.stage = "done" /\ IsTelemetryTopic(rx.topic)) =>
        LET parts == Split(rx.topic)
            parsed == ParseMqttTopic(rx.topic)
        IN /\ {"device_id", "channel"} \subseteq parsed.keys
           /\ parsed.device_id = DeviceIdOf(parts)
           /\ parsed.channel = MeasurementOf(parts)
           /\ \A k \in 1..Len(rx.calls) :
                 /\ rx.calls[k].device_id = parsed.device_id
                 /\ rx.calls[k].measurement = parsed.channel

\* C30, the device_id alone.
C30_SameDeviceId ==
    (rx.stage = "done" /\ IsTelemetryTopic(rx.topic)) =>
        /\ "device_id" \in ParseMqttTopic(rx.topic).keys
        /\ ParseMqttTopic(rx.topic).device_id = DeviceIdOf(Split(rx.topic))
        /\ \A k \in 1..Len(rx.calls) :
              rx.calls[k].device_id = ParseMqttTopic(rx.topic).device_id

====
